---- MODULE Spec2Model ----
(***************************************************************************)
(* fotografiska: organising photos/videos into <base>/<year>/<month>/      *)
(* under names <timestamp>-<fingerprint>-<name>.                           *)
(*                                                                         *)
(* Strings are sequences of one-character strings, so that the regular     *)
(* expressions, strings.Split, fmt.Sprintf and time.Parse/Format of the    *)
(* program are computed character by character.                            *)
(***************************************************************************)
EXTENDS Integers, Sequences, FiniteSets, TLC

VARIABLES fs, dirs, localTz, pc, run, dryRun, srcDir, queue, idx, nFiles, out, placed, sorted, sources, arg, ret

vars == <<fs, dirs, localTz, pc, run, dryRun, srcDir, queue, idx, nFiles, out, placed, sorted, sources, arg, ret>>

mainVars == <<fs, dirs, localTz, pc, run, dryRun, srcDir, queue, idx, nFiles, out, placed, sorted, sources>>

(***************************************************************************)
(* Characters and strings                                                  *)
(***************************************************************************)

\* the characters the model's file names use, in byte order (sort order of filepath.Walk)
Ascii == <<" ","+","-",".","0","1","2","3","4","5","6","7","8","9",":","A","B","C","D","E","F","G","H","I","J","K","L","M","N","O","P","Q","R","S","T","U","V","W","X","Y","Z","_","a","b","c","d","e","f","g","h","i","j","k","l","m","n","o","p","q","r","s","t","u","v","w","x","y","z">>

UpperCase == <<"A","B","C","D","E","F","G","H","I","J","K","L","M","N","O","P","Q","R","S","T","U","V","W","X","Y","Z">>

LowerCase == <<"a","b","c","d","e","f","g","h","i","j","k","l","m","n","o","p","q","r","s","t","u","v","w","x","y","z">>

HexDigits == <<"0","1","2","3","4","5","6","7","8","9","a","b","c","d","e","f">>

OrdOf == [c \in {Ascii[i] : i \in 1..Len(Ascii)} |-> CHOOSE i \in 1..Len(Ascii) : Ascii[i] = c]

Ord(c) == OrdOf[c]

DecSet == {HexDigits[i] : i \in 1..10}

HexSet == {HexDigits[i] : i \in 1..16}

DigitValOf == [c \in DecSet |-> (CHOOSE i \in 1..10 : HexDigits[i] = c) - 1]

LowerOf == [c \in {UpperCase[i] : i \in 1..26} |-> LowerCase[CHOOSE i \in 1..26 : UpperCase[i] = c]]

\* \d of the regular expressions
IsDigit(c) == c \in DecSet

\* [0-9a-f] of the regular expressions
IsHex(c) == c \in HexSet

DigitVal(c) == DigitValOf[c]

\* strings.ToLower
ToLowerChar(c) == IF c \in DOMAIN LowerOf THEN LowerOf[c] ELSE c

ToLower(s) == [i \in 1..Len(s) |-> ToLowerChar(s[i])]

\* strings.HasSuffix
HasSuffix(s, suf) == /\ Len(s) >= Len(suf)
                     /\ SubSeq(s, Len(s) - Len(suf) + 1, Len(s)) = suf

\* s[from:] of Go, from counted from 1
Tail0(s, from) == SubSeq(s, from, Len(s))

\* byte-wise string order, the order in which filepath.Walk visits the names of a directory
RECURSIVE StrLess(_, _)
StrLess(a, b) == IF b = <<>> THEN FALSE
                 ELSE IF a = <<>> THEN TRUE
                 ELSE IF Ord(a[1]) # Ord(b[1]) THEN Ord(a[1]) < Ord(b[1])
                 ELSE StrLess(Tail(a), Tail(b))

RECURSIVE SortNames(_)
SortNames(S) == IF S = {} THEN <<>>
                ELSE LET m == CHOOSE x \in S : \A y \in S \ {x} : StrLess(x, y)
                     IN  <<m>> \o SortNames(S \ {m})

\* fmt.Sprintf("%d", n) for n >= 0
RECURSIVE Dec(_)
Dec(n) == IF n < 10 THEN <<HexDigits[n + 1]>> ELSE Dec(n \div 10) \o <<HexDigits[(n % 10) + 1]>>

\* fmt.Sprintf("%.<w>d", n): at least w digits, zero-padded
RECURSIVE PadDec(_, _)
PadDec(n, w) == IF Len(Dec(n)) >= w THEN Dec(n) ELSE <<"0">> \o PadDec(n, w - 1)

(***************************************************************************)
(* time.Time, time.Parse and time.Format                                   *)
(*                                                                         *)
(* A time is its calendar reading together with its zone offset in minutes *)
(* east of UTC: [Y, M, D, h, m, s, tz].                                    *)
(***************************************************************************)

IsLeap(y) == (y % 4 = 0 /\ y % 100 # 0) \/ y % 400 = 0

DaysIn(m, y) == IF m = 2 THEN (IF IsLeap(y) THEN 29 ELSE 28)
                ELSE IF m \in {4, 6, 9, 11} THEN 30 ELSE 31

\* "#" stands for \d, "~" for [+-], any other character for itself
ClassOk(cls, c) == IF cls = "#" THEN IsDigit(c)
                   ELSE IF cls = "~" THEN c \in {"+", "-"}
                   ELSE c = cls

RECURSIVE MatchFrom(_, _, _, _)
MatchFrom(s, i, shape, k) == \/ k > Len(shape)
                             \/ ClassOk(shape[k], s[i + k - 1]) /\ MatchFrom(s, i, shape, k + 1)

MatchAt(s, i, shape) == /\ i + Len(shape) - 1 <= Len(s)
                        /\ MatchFrom(s, i, shape, 1)

Num2(s, i) == DigitVal(s[i]) * 10 + DigitVal(s[i + 1])

Num4(s, i) == Num2(s, i) * 100 + Num2(s, i + 2)

\* the date-and-time part of a layout: 2006<ds>01<ds>02<mid>15<ts>04<ts>05
StampShape(ds, mid, ts) == <<"#","#","#","#",ds,"#","#",ds,"#","#",mid,"#","#",ts,"#","#",ts,"#","#">>

\* the zone part of a layout: -0700, or -07:00 when colon
ZoneShape(colon) == IF colon THEN <<"~","#","#",":","#","#">> ELSE <<"~","#","#","#","#">>

NoTime == [Y |-> 1, M |-> 1, D |-> 1, h |-> 0, m |-> 0, s |-> 0, tz |-> 0]

\* time.Parse(layout, s) for the four layouts the program uses; a layout without a
\* zone yields UTC. The result is [ok, t]; ok is FALSE where time.Parse returns an error.
TimeParse(s, ds, mid, ts, withTz, colon) ==
    LET shape == IF withTz THEN StampShape(ds, mid, ts) \o ZoneShape(colon) ELSE StampShape(ds, mid, ts)
    IN  IF ~(Len(s) = Len(shape) /\ MatchAt(s, 1, shape)) THEN [ok |-> FALSE, t |-> NoTime]
        ELSE LET Y  == Num4(s, 1)
                 M  == Num2(s, 6)
                 D  == Num2(s, 9)
                 h  == Num2(s, 12)
                 mi == Num2(s, 15)
                 se == Num2(s, 18)
                 zh == IF withTz THEN Num2(s, 21) ELSE 0
                 zm == IF withTz THEN (IF colon THEN Num2(s, 24) ELSE Num2(s, 23)) ELSE 0
                 sg == IF withTz /\ s[20] = "-" THEN -1 ELSE 1
                 inRange == /\ M \in 1..12
                            /\ D >= 1
                            /\ D <= DaysIn(M, Y)
                            /\ h <= 23
                            /\ mi <= 59
                            /\ se <= 59
                            /\ zh <= 24
                            /\ zm <= 60
             IN  IF inRange
                 THEN [ok |-> TRUE, t |-> [Y |-> Y, M |-> M, D |-> D, h |-> h, m |-> mi, s |-> se, tz |-> sg * (zh * 60 + zm)]]
                 ELSE [ok |-> FALSE, t |-> NoTime]

\* t.Format("2006.01.02_15.04.05-0700")
TimeFormat(t) ==
    LET a == IF t.tz < 0 THEN -t.tz ELSE t.tz
    IN  PadDec(t.Y, 4) \o <<".">> \o PadDec(t.M, 2) \o <<".">> \o PadDec(t.D, 2) \o <<"_">>
        \o PadDec(t.h, 2) \o <<".">> \o PadDec(t.m, 2) \o <<".">> \o PadDec(t.s, 2)
        \o <<(IF t.tz < 0 THEN "-" ELSE "+")>> \o PadDec(a \div 60, 2) \o PadDec(a % 60, 2)

\* a.Before(b) for two wall-clock readings of the same zone
WallBefore(a, b) ==
    LET ka == <<a.Y, a.M, a.D, a.h, a.m, a.s>>
        kb == <<b.Y, b.M, b.D, b.h, b.m, b.s>>
    IN  \E i \in 1..6 : ka[i] < kb[i] /\ \A j \in 1..(i - 1) : ka[j] = kb[j]

(***************************************************************************)
(* Constants of the program                                                *)
(***************************************************************************)

TIMESRC_EXIF == "exif"

TIMESRC_EXIF_NO_TZ == "exif_no_tz"

TIMESRC_FILENAME == "filename"

TIMESRC_CTIME == "ctime"

\* The size of the buffer getPhotoHash reads into. The program's value is 10485760;
\* the model scales it down to a few bytes, files being one to five bytes long.
MAX_HASHABLE_SIZE_IN_BYTES == 3

EXIF_EXTENSIONS == {<<".","j","p","g">>, <<".","j","p","e","g">>, <<".","j","p","e">>, <<".","j","i","f">>, <<".","j","f","i","f">>, <<".","p","n","g">>, <<".","t","i","f">>, <<".","t","i","f","f">>, <<".","h","e","i","c">>, <<".","h","e","i","c","s">>, <<".","h","e","i","f">>, <<".","h","e","i","f","s">>}

NON_MEDIA_EXTENSIONS == {<<".","x","m","p">>}

boolAsYn(b) == IF b THEN "y" ELSE "n"

\* The program applies couldHaveExif and isMedia to whole paths; a path ends with
\* "/" followed by the base name and every extension starts with ".", so the
\* suffix test on the path is the suffix test on the base name.
couldHaveExif(filename) == LET lower == ToLower(filename) IN \E ext \in EXIF_EXTENSIONS : HasSuffix(lower, ext)

isMedia(filename) == LET lower == ToLower(filename) IN ~(\E ext \in NON_MEDIA_EXTENSIONS : HasSuffix(lower, ext))

(***************************************************************************)
(* Filename Parser: the three regular expressions, unanchored, matched     *)
(* leftmost-first as regexp.FindStringSubmatch does.                       *)
(***************************************************************************)

NoInfo == [year |-> <<>>, month |-> <<>>, day |-> <<>>, hour |-> <<>>, minutes |-> <<>>, seconds |-> <<>>, tzoffset |-> <<>>, hash |-> <<>>, origFilename |-> <<>>]

\* length of the longest run of [0-9a-f] starting at position i
RECURSIVE HexRun(_, _)
HexRun(s, i) == IF i <= Len(s) /\ IsHex(s[i]) THEN 1 + HexRun(s, i + 1) ELSE 0

\* the six date and time groups of a match starting at position i
StampGroups(s, i) == [year |-> SubSeq(s, i, i + 3), month |-> SubSeq(s, i + 5, i + 6), day |-> SubSeq(s, i + 8, i + 9),
                      hour |-> SubSeq(s, i + 11, i + 12), minutes |-> SubSeq(s, i + 14, i + 15), seconds |-> SubSeq(s, i + 17, i + 18)]

\* ([0-9a-f]+)<sep>(.*) at position i: the run of hex characters is followed by sep.
\* sep is not a hex character, so the group is the longest run or there is no match.
HexThenSepRun(s, i, sep, n) == /\ n >= 1
                               /\ i + n <= Len(s)
                               /\ s[i + n] = sep

HexThenSep(s, i, sep) == HexThenSepRun(s, i, sep, HexRun(s, i))

\* the fixed-width heads of the three expressions
OldFullShape == StampShape(".", "_", ".") \o <<"_">>

OldPlainShape == StampShape(".", "-", ".") \o <<"_">>

NewShape == StampShape(".", "_", ".") \o ZoneShape(FALSE) \o <<"-">>

\* (\d\d\d\d)\.(\d\d)\.(\d\d)_(\d\d)\.(\d\d)\.(\d\d)_([0-9a-f]+)_(.*)
rOldFullFilenameAt(s, i) == MatchAt(s, i, OldFullShape) /\ HexThenSep(s, i + 20, "_")

\* (\d\d\d\d)\.(\d\d)\.(\d\d)-(\d\d)\.(\d\d)\.(\d\d)_(.*)
rOldPlainFilenameAt(s, i) == MatchAt(s, i, OldPlainShape)

\* (\d\d\d\d)\.(\d\d)\.(\d\d)_(\d\d)\.(\d\d)\.(\d\d)([+-]\d\d\d\d)-([0-9a-f]+)-(.*)
rFilenameAt(s, i) == MatchAt(s, i, NewShape) /\ HexThenSep(s, i + 25, "-")

\* the leftmost of the positions M where a pattern matches, 0 if it matches nowhere
Leftmost(M) == IF M = {} THEN 0 ELSE CHOOSE i \in M : \A j \in M : i <= j

\* where each expression first matches in s
rOldFullFilenameIn(s) == Leftmost({i \in 1..Len(s) : rOldFullFilenameAt(s, i)})

rOldPlainFilenameIn(s) == Leftmost({i \in 1..Len(s) : rOldPlainFilenameAt(s, i)})

rFilenameIn(s) == Leftmost({i \in 1..Len(s) : rFilenameAt(s, i)})

\* the groups of a match of rOldFullFilename at i, n being the length of its hash group
groupsOldFull(path, i, n) ==
    StampGroups(path, i) @@ [tzoffset |-> <<>>, hash |-> SubSeq(path, i + 20, i + 19 + n), origFilename |-> Tail0(path, i + 21 + n)]

\* the groups of a match of rOldPlainFilename at i
groupsOldPlain(path, i) ==
    StampGroups(path, i) @@ [tzoffset |-> <<>>, hash |-> <<>>, origFilename |-> Tail0(path, i + 20)]

\* the groups of a match of rFilename at i, n being the length of its hash group
groupsNew(path, i, n) ==
    StampGroups(path, i) @@ [tzoffset |-> SubSeq(path, i + 19, i + 23), hash |-> SubSeq(path, i + 25, i + 24 + n),
                             origFilename |-> Tail0(path, i + 26 + n)]

\* the three expressions tried in order, i1, i2, i3 being where each matches
firstMatch(path, i1, i2, i3) ==
    IF i1 > 0 THEN groupsOldFull(path, i1, HexRun(path, i1 + 20))
    ELSE IF i2 > 0 THEN groupsOldPlain(path, i2)
    ELSE IF i3 > 0 THEN groupsNew(path, i3, HexRun(path, i3 + 25))
    ELSE NoInfo

getFilenameAdditionalInfo(path) ==
    firstMatch(path, rOldFullFilenameIn(path), rOldPlainFilenameIn(path), rFilenameIn(path))

(***************************************************************************)
(* Files.  A file is [bytes, exif, ctim, mtim]: its bytes, what the EXIF   *)
(* library finds in them ([found, dt, off]: whether there is an EXIF       *)
(* block, the DateTimeOriginal and the OffsetTimeOriginal strings, empty   *)
(* when the tag is absent), and its change and modification times as       *)
(* wall-clock readings [Y, M, D, h, m, s] of the local zone.               *)
(***************************************************************************)

(***************************************************************************)
(* Timestamp Resolver                                                      *)
(***************************************************************************)

\* what getExifCreationTime returns with the result r of time.Parse
exifResult(r, haveTz) == [t |-> r.t, haveTz |-> haveTz, err |-> ~r.ok]

\* returns [t, haveTz, err]; err is TRUE where the Go function returns a non-nil error
getExifCreationTime(file) ==
    IF ~file.exif.found THEN [t |-> NoTime, haveTz |-> FALSE, err |-> TRUE]
    ELSE IF file.exif.dt = <<>> THEN [t |-> NoTime, haveTz |-> FALSE, err |-> TRUE]
    ELSE IF file.exif.off = <<>>
    THEN exifResult(TimeParse(file.exif.dt, ":", " ", ":", FALSE, FALSE), FALSE)
    ELSE exifResult(TimeParse(file.exif.dt \o file.exif.off, ":", " ", ":", TRUE, TRUE), TRUE)

\* time.Unix gives a time of the local zone, whose offset is ltz
getFileCtimeEarlier(file, ltz) == file.ctim @@ [tz |-> ltz]

getFileCtime(file, ltz) ==
    IF WallBefore(file.ctim, file.mtim) THEN file.ctim @@ [tz |-> ltz] ELSE file.mtim @@ [tz |-> ltz]

\* the time rebuilt from the fragments of the file name
filenameTime(ai) ==
    TimeParse(ai.year \o <<".">> \o ai.month \o <<".">> \o ai.day \o <<"_">>
              \o ai.hour \o <<".">> \o ai.minutes \o <<".">> \o ai.seconds \o ai.tzoffset,
              ".", "_", ".", Len(ai.tzoffset) > 0, FALSE)

filenameResult(r) == [t |-> r.t, tSrc |-> TIMESRC_FILENAME, err |-> ~r.ok]

\* the tiers of getPhotoCreationTime, e being what getExifCreationTime returns
creationTimeWith(path, file, ai, ltz, e) ==
    IF couldHaveExif(path) /\ ~e.err
    THEN [t |-> e.t, tSrc |-> (IF e.haveTz THEN TIMESRC_EXIF ELSE TIMESRC_EXIF_NO_TZ), err |-> FALSE]
    ELSE IF Len(ai.origFilename) > 0 THEN filenameResult(filenameTime(ai))
    ELSE [t |-> getFileCtime(file, ltz), tSrc |-> TIMESRC_CTIME, err |-> FALSE]

\* returns [t, tSrc, err]
getPhotoCreationTime(path, file, ai, ltz) == creationTimeWith(path, file, ai, ltz, getExifCreationTime(file))

(***************************************************************************)
(* Content Fingerprinter                                                   *)
(***************************************************************************)

\* what file.Read leaves in the buffer made by make([]byte, MAX_HASHABLE_SIZE_IN_BYTES):
\* the bytes read, followed by the zeroes the buffer was made with
ReadBuffer(bytes) == [i \in 1..MAX_HASHABLE_SIZE_IN_BYTES |-> IF i <= Len(bytes) THEN bytes[i] ELSE 0]

\* xxhash.Sum64 taken as collision-free: the 64-bit sum is modelled by the eight
\* bytes of the value whose low bytes are the buffer (buffers are at most 8 long)
Sum64(b) == [i \in 1..8 |-> IF i <= 8 - Len(b) THEN 0 ELSE b[i - (8 - Len(b))]]

\* fmt.Sprintf("%.16x", sum)
Hex16(sum) == [i \in 1..16 |-> LET byte == sum[(i + 1) \div 2]
                               IN  IF i % 2 = 1 THEN HexDigits[(byte \div 16) + 1] ELSE HexDigits[(byte % 16) + 1]]

\* returns [panic, hash]
getPhotoHash(file) ==
    LET nBytesRead == IF Len(file.bytes) < MAX_HASHABLE_SIZE_IN_BYTES THEN Len(file.bytes) ELSE MAX_HASHABLE_SIZE_IN_BYTES
    IN  IF nBytesRead = 0 THEN [panic |-> TRUE, hash |-> <<>>]
        ELSE [panic |-> FALSE, hash |-> Hex16(Sum64(ReadBuffer(file.bytes)))]

(***************************************************************************)
(* Destination Namer.  A path is [dir, name]; the directory                *)
(* <base>/<year>/<2-digit month>/ is the pair <<year, month>>.             *)
(***************************************************************************)

NoPath == [dir |-> <<0, 0>>, name |-> <<>>]

destinationWithRecovered(path, ai, r, h) ==
    LET filename == IF Len(ai.origFilename) > 0 THEN ai.origFilename ELSE path
    IN  IF r.err THEN [panic |-> TRUE, dstPath |-> NoPath, tSrc |-> r.tSrc]
        ELSE IF isMedia(path)
        THEN IF h.panic THEN [panic |-> TRUE, dstPath |-> NoPath, tSrc |-> r.tSrc]
             ELSE [panic |-> FALSE,
                   dstPath |-> [dir |-> <<r.t.Y, r.t.M>>, name |-> TimeFormat(r.t) \o <<"-">> \o h.hash \o <<"-">> \o filename],
                   tSrc |-> r.tSrc]
        ELSE [panic |-> FALSE, dstPath |-> [dir |-> <<r.t.Y, r.t.M>>, name |-> filename], tSrc |-> TIMESRC_FILENAME]

\* the destination, r being the resolved time and h the fingerprint of the file
destinationWith(path, ai, r, h) ==
    LET filename == IF Len(ai.origFilename) > 0 THEN ai.origFilename ELSE path
    IN  IF r.err THEN [panic |-> TRUE, dstPath |-> NoPath, tSrc |-> r.tSrc]
        ELSE IF isMedia(path)
        THEN IF h.panic THEN [panic |-> TRUE, dstPath |-> NoPath, tSrc |-> r.tSrc]
             ELSE [panic |-> FALSE,
                   dstPath |-> [dir |-> <<r.t.Y, r.t.M>>, name |-> TimeFormat(r.t) \o <<"-">> \o h.hash \o <<"-">> \o filename],
                   tSrc |-> r.tSrc]
        ELSE [panic |-> FALSE, dstPath |-> [dir |-> <<r.t.Y, r.t.M>>, name |-> path], tSrc |-> TIMESRC_FILENAME]

destinationWithInfo(path, file, ltz, ai) == destinationWith(path, ai, getPhotoCreationTime(path, file, ai, ltz), getPhotoHash(file))

\* returns [panic, dstPath, tSrc]; path is the base name of the source
getSortedDestination(path, file, ltz) == destinationWithInfo(path, file, ltz, getFilenameAdditionalInfo(path))

(***************************************************************************)
(* Placement Engine                                                        *)
(***************************************************************************)

\* strings.Split(s, "-")
RECURSIVE SplitHyphen(_)
SplitHyphen(s) == IF \E i \in 1..Len(s) : s[i] = "-"
                  THEN LET i == CHOOSE k \in 1..Len(s) : s[k] = "-" /\ \A j \in 1..(k - 1) : s[j] # "-"
                       IN  <<SubSeq(s, 1, i - 1)>> \o SplitHyphen(Tail0(s, i + 1))
                  ELSE <<s>>

validatePartsInverted(parts, file) ==
    IF Len(parts) < 3 THEN [panic |-> FALSE, valid |-> TRUE]
    ELSE IF Len(parts[2]) # 16 THEN [panic |-> FALSE, valid |-> TRUE]
    ELSE [panic |-> getPhotoHash(file).panic, valid |-> parts[2] # getPhotoHash(file).hash]

validateParts(parts, file) ==
    IF Len(parts) < 3 THEN [panic |-> FALSE, valid |-> TRUE]
    ELSE IF Len(parts[2]) # 16 THEN [panic |-> FALSE, valid |-> TRUE]
    ELSE [panic |-> getPhotoHash(file).panic, valid |-> parts[2] = getPhotoHash(file).hash]

\* returns [panic, valid]; path is the base name of the destination
validateFile(path, file) == validateParts(SplitHyphen(path), file)

\* os.Remove
Remove(fsys, p) == [q \in (DOMAIN fsys) \ {p} |-> fsys[q]]

\* the file system with file x at path p
Put(fsys, p, x) == [q \in (DOMAIN fsys) \cup {p} |-> IF q = p THEN x ELSE fsys[q]]

\* the wall-clock reading at which the program runs, later than every sample time
NowWall == [Y |-> 2030, M |-> 1, D |-> 1, h |-> 0, m |-> 0, s |-> 0]

\* a move in place of the copy: the source is gone once the destination is written
moveFile(fsys, srcPath, dstPath) ==
    Remove(Put(fsys, dstPath, [bytes |-> fsys[srcPath].bytes, exif |-> fsys[srcPath].exif, ctim |-> NowWall, mtim |-> fsys[srcPath].mtim]),
           srcPath)

\* cp --preserve=timestamps srcPath dstPath: the destination gets the bytes and the
\* modification time of the source; its change time is the time of the copy
copyFile(fsys, srcPath, dstPath) ==
    Put(fsys, dstPath, [bytes |-> fsys[srcPath].bytes, exif |-> fsys[srcPath].exif, ctim |-> NowWall, mtim |-> fsys[srcPath].mtim])

\* what a cp that fails half-way leaves at dstPath: a file with the last byte missing
partialCopy(fsys, srcPath, dstPath) ==
    Put(fsys, dstPath, [bytes |-> SubSeq(fsys[srcPath].bytes, 1, Len(fsys[srcPath].bytes) - 1), exif |-> fsys[srcPath].exif,
                        ctim |-> NowWall, mtim |-> NowWall])

\* the faults of the environment a call may meet: os.Remove fails; cp fails after
\* it wrote part of the destination
Faults == {"none", "remove", "copy_partial"}

NoLine == [dryRun |-> FALSE, idx |-> 0, nFiles |-> 0, exists |-> "n", media |-> "n", invalid |-> "n", wrote |-> 0,
           timeSrc |-> "", src |-> <<>>, dst |-> NoPath]

\* the outcome of a call that panics
Abort(fsys, ds) == [fs |-> fsys, dirs |-> ds, panic |-> TRUE, line |-> NoLine, copied |-> FALSE, removed |-> FALSE]

\* the validation of what lies at dstPath: valid unless a media file fails validateFile
validateDest(fsys, dstPath) ==
    IF dstPath \in DOMAIN fsys /\ isMedia(dstPath.name) THEN validateFile(dstPath.name, fsys[dstPath])
    ELSE [panic |-> FALSE, valid |-> TRUE]

\* sortFileIntoDestination from os.Stat(dstPath) on, g being what getSortedDestination
\* returned and v the validation of the destination
placeFile(fsys, ds1, path, dry, i, n, fault, g, v) ==
    LET dstPath == g.dstPath
        doesDestExist == dstPath \in DOMAIN fsys
        isDestInvalid == doesDestExist /\ isMedia(dstPath.name) /\ ~v.valid
        fs1 == IF isDestInvalid THEN Remove(fsys, dstPath) ELSE fsys
        doCopy == ~dry /\ (~doesDestExist \/ isDestInvalid)
        fs2 == IF doCopy THEN copyFile(fs1, path, dstPath) ELSE fs1
        bytesCopied == IF doCopy THEN Len(fsys[path].bytes) ELSE 0
        line == [dryRun |-> dry, idx |-> i, nFiles |-> n, exists |-> boolAsYn(doesDestExist), media |-> boolAsYn(isMedia(path.name)),
                 invalid |-> boolAsYn(isDestInvalid), wrote |-> bytesCopied, timeSrc |-> g.tSrc, src |-> path.name, dst |-> dstPath]
    IN  IF v.panic THEN Abort(fsys, ds1)
        ELSE IF isDestInvalid /\ fault = "remove" THEN Abort(fsys, ds1)
        ELSE IF doCopy /\ path \notin DOMAIN fs1 THEN Abort(fs1, ds1)
        ELSE IF doCopy /\ fault = "copy_partial" THEN Abort(partialCopy(fs1, path, dstPath), ds1)
        ELSE [fs |-> fs2, dirs |-> ds1, panic |-> FALSE, line |-> line, copied |-> doCopy, removed |-> isDestInvalid]

sortFileWith(fsys, ds, path, dry, i, n, fault, g) ==
    IF g.panic THEN Abort(fsys, ds)
    ELSE placeFile(fsys, ds \cup {g.dstPath.dir}, path, dry, i, n, fault, g, validateDest(fsys, g.dstPath))

\* One call of sortFileIntoDestination on the source file at path (which exists).
\* Returns the file system and directories it leaves, whether it panicked, the
\* report line it printed, and whether it completed a copy.
sortFileIntoDestination(fsys, ds, path, dry, i, n, ltz, fault) ==
    sortFileWith(fsys, ds, path, dry, i, n, fault, getSortedDestination(path.name, fsys[path], ltz))

(***************************************************************************)
(* Sample inputs                                                           *)
(***************************************************************************)

\* the largest number of files in the source directory at the start
MaxFiles == 2

\* the largest number of times the program is run
MaxRuns == 2

\* the source directory when it lies outside the destination tree
SrcOutside == <<0, 0>>

NoExif == [found |-> FALSE, dt |-> <<>>, off |-> <<>>]

ExifDt == [found |-> TRUE, dt |-> <<"2","0","2","1",":","0","1",":","0","1"," ","0","5",":","2","3",":","1","1">>, off |-> <<>>]

ExifDtOff == [found |-> TRUE, dt |-> <<"2","0","2","1",":","0","1",":","0","1"," ","0","5",":","2","3",":","1","1">>, off |-> <<"+","0","1",":","0","0">>]

ExifDtWest == [found |-> TRUE, dt |-> <<"2","0","2","1",":","0","1",":","0","1"," ","0","5",":","2","3",":","1","1">>, off |-> <<"-","0","5",":","0","0">>]

ExifNoTag == [found |-> TRUE, dt |-> <<>>, off |-> <<"+","0","1",":","0","0">>]

ExifBadDt == [found |-> TRUE, dt |-> <<"2","0","2","1",":","1","3",":","0","1"," ","0","5",":","2","3",":","1","1">>, off |-> <<>>]

WallA == [Y |-> 2020, M |-> 8, D |-> 27, h |-> 11, m |-> 0, s |-> 0]

WallB == [Y |-> 2019, M |-> 12, D |-> 31, h |-> 23, m |-> 59, s |-> 59]

NameJpg == <<"I",".","J","P","G">>

NameMp4 == <<"a",".","m","p","4">>

NameXmp == <<"I",".","J","P","G",".","x","m","p">>

NameXmpStamped == <<"2","0","2","2",".","0","7",".","0","6","_","1","4",".","2","1",".","4","0","+","0","0","0","0","-","c","2","-","D",".","J","P","G",".","X","M","P">>

NameNested == <<"2","0","0","8",".","0","5",".","1","7","-","1","2",".","5","2",".","0","6","_","2","0","0","9",".","0","6",".","1","8","-","1","3",".","5","3",".","0","7","_","I",".","m","p","4">>

NameEmpty == <<"e",".","m","p","4">>

NameOldFull == <<"2","0","2","1",".","0","1",".","2","9","_","1","7",".","1","7",".","3","1","_","6","0","_","I",".","J","P","G">>

NameOldPlain == <<"2","0","0","8",".","0","5",".","1","7","-","1","2",".","5","2",".","0","6","_","I",".","m","p","4">>

NameWest == <<"2","0","2","2",".","0","7",".","0","6","_","1","4",".","2","1",".","4","0","-","0","5","0","0","-","c","2","-","w",".","m","p","4">>

NameBadMonth == <<"2","0","0","8",".","1","3",".","1","7","-","1","2",".","5","2",".","0","6","_","b",".","m","p","4">>

NameNoTail == <<"n","2","0","0","8",".","0","5",".","1","7","-","1","2",".","5","2",".","0","6","_">>

\* the offsets of the local zone the program may run in, in minutes east of UTC
LocalZones == {-300, 60}

File(bytes, exif, ctim, mtim) == [bytes |-> bytes, exif |-> exif, ctim |-> ctim, mtim |-> mtim]

\* the files the source directory may hold at the start: [name, file]
SampleSources == {
    [name |-> NameJpg,        file |-> File(<<1>>, ExifDtOff, WallA, WallB)],
    [name |-> NameMp4,        file |-> File(<<1, 0>>, NoExif, WallA, WallB)],
    [name |-> NameXmp,        file |-> File(<<2>>, NoExif, WallB, WallA)],
    [name |-> NameEmpty,      file |-> File(<<>>, NoExif, WallA, WallB)] }

\* what may lie at the destination of a source file at the start: nothing, a copy of
\* the source made by an earlier run, or a file whose bytes are not those its name tells
PreStates == {"absent", "damaged", "intact"}

DamagedFile == File(<<7>>, NoExif, WallA, WallA)

SrcPath(x) == [dir |-> SrcOutside, name |-> x.name]

\* what lies at the destination g of source x at the start
InitDest(x, st, g) ==
    IF st = "absent" \/ g.panic THEN {}
    ELSE {[p |-> g.dstPath, f |-> IF st = "intact" THEN File(x.file.bytes, x.file.exif, WallA, x.file.mtim) ELSE DamagedFile]}

\* the files of the initial tree: the sources, and what lies at their destinations
InitEntries(S, pre, ltz) ==
    {[p |-> SrcPath(x), f |-> x.file] : x \in S}
    \cup UNION {InitDest(x, pre[x], getSortedDestination(x.name, x.file, ltz)) : x \in S}

TreeOf(E) == [p \in {e.p : e \in E} |-> (CHOOSE e \in E : e.p = p).f]

(***************************************************************************)
(* The program: main and its two walks of the source directory.  The       *)
(* source directory is one directory of files, outside the destination     *)
(* tree or one of its month directories.                                   *)
(***************************************************************************)

Init ==
    /\ \E S \in SUBSET SampleSources : \E ltz \in LocalZones : \E pre \in [S -> PreStates] :
          /\ Cardinality(S) \in 1..MaxFiles
          /\ \A x, y \in S : x.name = y.name => x = y
          /\ \E E \in {InitEntries(S, pre, ltz)} :
                /\ \A e1, e2 \in E : e1.p = e2.p => e1 = e2
                /\ fs = TreeOf(E)
                /\ dirs = {e.p.dir : e \in E} \ {SrcOutside}
          /\ localTz = ltz
    /\ pc = "idle"
    /\ run = 0
    /\ dryRun = FALSE
    /\ srcDir = SrcOutside
    /\ queue = <<>>
    /\ idx = 0
    /\ nFiles = 0
    /\ out = <<>>
    /\ placed = {}
    /\ sorted = {}
    /\ sources = {}
    /\ arg = <<>>
    /\ ret = <<>>

\* the names filepath.Walk finds in directory d, in the order it visits them
WalkNames(fsys, d) == SortNames({p.name : p \in {q \in DOMAIN fsys : q.dir = d}})

\* where main stands after a callback: a panic in the callback ends the program
pcAfterKeepGoing(panicked, rest) == IF rest = <<>> THEN "done" ELSE "walk"

pcAfter(panicked, rest) == IF panicked THEN "panicked" ELSE IF rest = <<>> THEN "done" ELSE "walk"

\* main up to the second walk: the flags, validateDir, and the walk that counts the
\* files. The program is run again only after a run that ended without a panic; out
\* is the standard output of the current run.
Start ==
    /\ pc \in {"idle", "done"}
    /\ run < MaxRuns
    /\ \E dry \in BOOLEAN : \E d \in {SrcOutside} \cup dirs :
          /\ dryRun' = dry
          /\ srcDir' = d
          /\ queue' = WalkNames(fs, d)
          /\ nFiles' = Len(WalkNames(fs, d))
          /\ pc' = pcAfter(FALSE, WalkNames(fs, d))
    /\ run' = run + 1
    /\ idx' = 0
    /\ out' = <<>>
    /\ UNCHANGED <<fs, dirs, localTz, placed, sorted, sources, arg, ret>>

\* what a callback whose call of sortFileIntoDestination gave r leaves
Callback(path, r) ==
    /\ idx' = idx + 1
    /\ fs' = r.fs
    /\ dirs' = r.dirs
    /\ pc' = pcAfter(r.panic, Tail(queue))
    /\ queue' = Tail(queue)
    /\ out' = IF r.panic THEN out ELSE Append(out, r.line)
    /\ placed' = IF r.copied THEN placed \cup {[run |-> run, path |-> r.line.dst, file |-> r.fs[r.line.dst]]} ELSE placed
    /\ sorted' = IF ~r.panic /\ ~dryRun THEN sorted \cup {[run |-> run, path |-> path, file |-> fs[path]]} ELSE sorted
    /\ sources' = sources \cup {[path |-> path, file |-> fs[path]]}

\* lstat fails, the callback gets a nil fileinfo and fileinfo.IsDir() panics
CallbackNoFile ==
    /\ pc' = pcAfter(TRUE, Tail(queue))
    /\ queue' = Tail(queue)
    /\ UNCHANGED <<fs, dirs, idx, out, placed, sorted, sources>>

\* one callback of the second walk
WalkFile(path) ==
    IF path \notin DOMAIN fs THEN CallbackNoFile
    ELSE \E fault \in Faults : Callback(path, sortFileIntoDestination(fs, dirs, path, dryRun, idx + 1, nFiles, localTz, fault))

WalkStep ==
    /\ pc = "walk"
    /\ queue # <<>>
    /\ WalkFile([dir |-> srcDir, name |-> Head(queue)])
    /\ UNCHANGED <<localTz, run, dryRun, srcDir, nFiles, arg, ret>>

Next == Start \/ WalkStep

Spec == Init /\ [][Next]_vars

(***************************************************************************)
(* The functions on their own, applied to inputs drawn from sample sets.   *)
(***************************************************************************)

\* the main program does not run
Parked ==
    /\ fs = <<>>
    /\ dirs = {}
    /\ localTz = 0
    /\ pc = "parked"
    /\ run = 0
    /\ dryRun = FALSE
    /\ srcDir = SrcOutside
    /\ queue = <<>>
    /\ idx = 0
    /\ nFiles = 0
    /\ out = <<>>
    /\ placed = {}
    /\ sorted = {}
    /\ sources = {}

SampleExifs == {NoExif, ExifDt, ExifDtOff, ExifDtWest, ExifNoTag, ExifBadDt}

SampleWalls == {WallA, WallB}

TimeNames == {NameJpg, NameMp4, NameXmp, NameOldFull, NameOldPlain, NameWest, NameBadMonth, NameNoTail}

NoResult == [t |-> NoTime, tSrc |-> "", err |-> FALSE]

\* getPhotoCreationTime on a file [name, exif, ctim, mtim] in the local zone ltz
InitTime ==
    /\ arg \in [name : TimeNames, exif : SampleExifs, ctim : SampleWalls, mtim : SampleWalls, ltz : LocalZones]
    /\ ret = [done |-> FALSE, ai |-> NoInfo, r |-> NoResult]
    /\ Parked

ResolveTime ==
    /\ ~ret.done
    /\ ret' = [done |-> TRUE, ai |-> getFilenameAdditionalInfo(arg.name),
               r |-> getPhotoCreationTime(arg.name, File(<<1>>, arg.exif, arg.ctim, arg.mtim), getFilenameAdditionalInfo(arg.name), arg.ltz)]
    /\ UNCHANGED <<arg, mainVars>>

NextTime == ResolveTime

SpecTime == InitTime /\ [][NextTime]_vars

\* the longest sample file, in bytes: longer than the hashed window
MaxFileLen == 4

ByteVals == {0, 255}

RECURSIVE SeqsUpTo(_)
SeqsUpTo(n) == IF n = 0 THEN {<<>>} ELSE SeqsUpTo(n - 1) \cup {Append(b, v) : b \in {c \in SeqsUpTo(n - 1) : Len(c) = n - 1}, v \in ByteVals}

NoHash == [panic |-> FALSE, hash |-> <<>>]

\* getPhotoHash on two files with bytes a and b
InitHash ==
    /\ arg \in [a : SeqsUpTo(MaxFileLen), b : SeqsUpTo(MaxFileLen)]
    /\ ret = [done |-> FALSE, ha |-> NoHash, hb |-> NoHash]
    /\ Parked

HashBoth ==
    /\ ~ret.done
    /\ ret' = [done |-> TRUE, ha |-> getPhotoHash(File(arg.a, NoExif, WallA, WallA)), hb |-> getPhotoHash(File(arg.b, NoExif, WallA, WallA))]
    /\ UNCHANGED <<arg, mainVars>>

NextHash == HashBoth

SpecHash == InitHash /\ [][NextHash]_vars

NameNames == {NameJpg, NameMp4, NameXmp, NameXmpStamped, NameNested, NameOldFull, NameOldPlain, NameWest, NameBadMonth}

NameBytes == {<<1>>, <<1, 0, 0, 1>>, <<>>}

NameExifs == {NoExif, ExifDt, ExifDtOff}

NoDest == [panic |-> FALSE, dstPath |-> NoPath, tSrc |-> ""]

\* getSortedDestination on a file, and then again on the copy of the file that
\* copyFile puts at the destination
InitName ==
    /\ arg \in [name : NameNames, bytes : NameBytes, exif : NameExifs, ctim : SampleWalls, mtim : SampleWalls, ltz : LocalZones]
    /\ ret = [stage |-> 0, d1 |-> NoDest, d2 |-> NoDest]
    /\ Parked

ArgFile == File(arg.bytes, arg.exif, arg.ctim, arg.mtim)

ArgPath == [dir |-> SrcOutside, name |-> arg.name]

NameFirst ==
    /\ ret.stage = 0
    /\ ret' = [stage |-> 1, d1 |-> getSortedDestination(arg.name, ArgFile, arg.ltz), d2 |-> NoDest]
    /\ UNCHANGED <<arg, mainVars>>

NameAgain ==
    /\ ret.stage = 1
    /\ ~ret.d1.panic
    /\ ret' = [ret EXCEPT !.stage = 2,
                          !.d2 = getSortedDestination(ret.d1.dstPath.name,
                                                      copyFile([p \in {ArgPath} |-> ArgFile], ArgPath, ret.d1.dstPath)[ret.d1.dstPath],
                                                      arg.ltz)]
    /\ UNCHANGED <<arg, mainVars>>

NextName == NameFirst \/ NameAgain

SpecName == InitName /\ [][NextName]_vars

(***************************************************************************)
(* Properties                                                              *)
(***************************************************************************)

Last(s) == s[Len(s)]

\* the source file of the callback that is about to run
Cur == [dir |-> srcDir, name |-> Head(queue)]

\* a callback is about to run on a source file that exists
AtFile == pc = "walk" /\ queue # <<>> /\ Cur \in DOMAIN fs

\* the destination the callback that is about to run computes
CurDest == getSortedDestination(Cur.name, fs[Cur], localTz)

\* the step is a callback that ran to its end and printed its report line
Reported == AtFile /\ pc' # "panicked" /\ Len(out') = Len(out) + 1

\* C1: placement is idempotent: a call of sortFileIntoDestination in normal mode on a
\* source file that an earlier normal-mode call has already sorted writes no copy
\* (0 bytes written, the files of the tree unchanged) and does not flag the
\* destination invalid.
C1_Idempotent ==
    [][(Reported /\ ~dryRun /\ (\E e \in sorted : e.path = Cur /\ e.file = fs[Cur]))
       => (fs' = fs /\ Last(out').wrote = 0 /\ Last(out').invalid = "n")]_vars

\* a second normal run has sorted a file that the first normal run copied
C1_Witness ==
    \E e1, e2 \in sorted : \E w \in placed :
        /\ e1.run = 1 /\ e2.run = 2 /\ e1.path = e2.path /\ e1.file = e2.file
        /\ w.run = 1 /\ w.file.bytes = e1.file.bytes
        /\ out # <<>>

\* C2: in dry-run mode a call of sortFileIntoDestination copies and deletes nothing:
\* the files of the tree and their contents are after the call what they were before.
C2_DryRunFrame == [][(AtFile /\ dryRun) => fs' = fs]_vars

\* the second hyphen-delimited field of a file name
SecondField(name) == SplitHyphen(name)[2]

\* C3: when a media file lies at the computed destination and the second
\* hyphen-delimited field of its name is not the fingerprint of its bytes, the call
\* flags it invalid and, in normal mode, leaves a copy of the source at the destination.
C3_Repair ==
    [][(/\ Reported
        /\ ~CurDest.panic
        /\ CurDest.dstPath \in DOMAIN fs
        /\ isMedia(CurDest.dstPath.name)
        /\ ~getPhotoHash(fs[CurDest.dstPath]).panic
        /\ SecondField(CurDest.dstPath.name) # getPhotoHash(fs[CurDest.dstPath]).hash)
       => (/\ Last(out').invalid = "y"
           /\ ~dryRun => (CurDest.dstPath \in DOMAIN fs' /\ fs'[CurDest.dstPath].bytes = fs[Cur].bytes))]_vars

\* C8: when the name of the media file at the computed destination does not split on
\* "-" into at least 3 fields with a second field of 16 characters, the run aborts.
C8_MalformedIsFatal ==
    [][(/\ AtFile
        /\ ~CurDest.panic
        /\ CurDest.dstPath \in DOMAIN fs
        /\ isMedia(CurDest.dstPath.name)
        /\ (Len(SplitHyphen(CurDest.dstPath.name)) < 3 \/ Len(SecondField(CurDest.dstPath.name)) # 16))
       => pc' = "panicked"]_vars

\* C9: the timestamp-source tag of the report line is the tag the Timestamp Resolver
\* attached to the time the destination was built from, for media and non-media files.
C9_ReportedTag ==
    [][Reported => Last(out').timeSrc = getPhotoCreationTime(Cur.name, fs[Cur], getFilenameAdditionalInfo(Cur.name), localTz).tSrc]_vars

\* C10: once the call for a file hits a fatal condition (the callback has run and
\* printed no report line) the run is over: nothing is placed or reported after it,
\* and what the run has placed before stays as it was placed.
C10_StopOnFirstError ==
    [][/\ (AtFile /\ idx' = idx + 1 /\ out' = out) => pc' = "panicked"
       /\ (pc = "panicked" /\ run' = run) => UNCHANGED <<fs, dirs, out, idx, placed>>
       /\ \A e \in placed : e.run = run' => (e.path \in DOMAIN fs' /\ fs'[e.path] = e.file)]_vars

\* a run has panicked on its second file after it placed its first
C10_Witness ==
    /\ pc = "panicked"
    /\ idx = 2
    /\ Len(out) = 1
    /\ \E e \in placed : e.run = run /\ e.path = out[1].dst /\ fs[e.path] = e.file

\* the files of the tree other than the one at path p are after the step what they were
SameExceptAt(p) == \A q \in (DOMAIN fs \cup DOMAIN fs') \ {p} : q \in DOMAIN fs /\ q \in DOMAIN fs' /\ fs'[q] = fs[q]

ArgTier1 == couldHaveExif(arg.name) /\ arg.exif.found /\ arg.exif.dt # <<>>
            /\ TimeParse(arg.exif.dt \o arg.exif.off, ":", " ", ":", arg.exif.off # <<>>, TRUE).ok

ArgTier2 == ~ArgTier1 /\ ret.ai.origFilename # <<>>

\* the calendar reading of time t is the one the digits of s tell from position i on
ReadsAs(t, s, i) == /\ t.Y = Num4(s, i) /\ t.M = Num2(s, i + 5) /\ t.D = Num2(s, i + 8)
                    /\ t.h = Num2(s, i + 11) /\ t.m = Num2(s, i + 14) /\ t.s = Num2(s, i + 17)

SameWall(t, w) == <<t.Y, t.M, t.D, t.h, t.m, t.s>> = <<w.Y, w.M, w.D, w.h, w.m, w.s>>

Window(bytes) == SubSeq(bytes, 1, IF Len(bytes) < MAX_HASHABLE_SIZE_IN_BYTES THEN Len(bytes) ELSE MAX_HASHABLE_SIZE_IN_BYTES)

\* C5: the fingerprint is a function of exactly the first min(size, 10 MiB) bytes: two
\* files get the same fingerprint if and only if these bytes are the same, in number too.
C5_WindowOnly ==
    (ret.done /\ ~ret.ha.panic /\ ~ret.hb.panic) => ((Window(arg.a) = Window(arg.b)) <=> (ret.ha.hash = ret.hb.hash))

\* some expression matches the name
MatchesPattern(name) == \/ rOldFullFilenameIn(name) > 0
                        \/ rOldPlainFilenameIn(name) > 0
                        \/ rFilenameIn(name) > 0

\* C6: for a media file whose name matches a pattern the destination name is built
\* from the recovered original filename, and a file that carries the canonical name
\* the program gave it gets that same destination again.
C6_Recovery ==
    (ret.stage >= 1 /\ isMedia(arg.name) /\ ~ret.d1.panic) =>
        /\ MatchesPattern(arg.name)
              => (/\ HasSuffix(ret.d1.dstPath.name, <<"-">> \o getFilenameAdditionalInfo(arg.name).origFilename)
                  /\ Len(ret.d1.dstPath.name) = 42 + Len(getFilenameAdditionalInfo(arg.name).origFilename))
        /\ (ret.stage = 2 /\ ~ret.d2.panic) => ret.d2.dstPath = ret.d1.dstPath

\* C7: the destination of a non-media file is <year>/<2-digit month>/<name> with the
\* name exactly as found on disk and the month directory of the resolved time.
C7_SidecarName ==
    (ret.stage >= 1 /\ ~isMedia(arg.name) /\ ~ret.d1.panic) =>
        /\ ret.d1.dstPath.name = arg.name
        /\ LET r == getPhotoCreationTime(arg.name, ArgFile, getFilenameAdditionalInfo(arg.name), arg.ltz)
           IN  ret.d1.dstPath.dir = <<r.t.Y, r.t.M>>

\* a sidecar whose name matches a pattern got its destination
C7_Witness ==
    /\ ret.stage >= 1
    /\ arg.name = NameXmpStamped
    /\ ~ret.d1.panic
    /\ ret.d1.dstPath = [dir |-> <<2022, 7>>, name |-> NameXmpStamped]

====
